---- MODULE Spec2Model ----
(***************************************************************************)
(* Credit-renewal workflow of src/src/agent/graph.py: a StateGraph with    *)
(* nine nodes (Ingest, three RAG nodes, three HITL review nodes,           *)
(* Synthesize, HITL_Final), executed in supersteps.  In one superstep all  *)
(* scheduled nodes read the same state, their returned updates are         *)
(* buffered, and the updates are merged into the state when every node of  *)
(* the step has returned.  A state key takes at most one update per step.  *)
(* A node that calls interrupt() suspends until a decision is supplied.    *)
(***************************************************************************)
EXTENDS Integers, Sequences, FiniteSets, TLC

\* ---------------------------------------------------------------- bounds
\* most retrieval calls per domain, most generation calls
MaxRagRuns == 2
MaxSynthRuns == 2

\* ------------------------------------------------------------ vocabulary
Domains == {"policy", "entity", "market"}
Gates == Domains \cup {"final"}

RagNode == [policy |-> "RAG_Policy", entity |-> "RAG_Entity", market |-> "RAG_Market"]
HitlNode == [policy |-> "HITL_Policy", entity |-> "HITL_Entity",
             market |-> "HITL_Market", final |-> "HITL_Final"]
EndNode == "__end__"
Nodes == {"Ingest", "Synthesize"} \cup {RagNode[d] : d \in Domains}
            \cup {HitlNode[g] : g \in Gates}

QueryKey == [policy |-> "policy_query", entity |-> "entity_query", market |-> "market_query"]
ArtifactKey == [policy |-> "policy_pack", entity |-> "entity_pack",
                market |-> "market_pack", final |-> "credit_memo"]
FlagKey == [policy |-> "accept_policy", entity |-> "accept_entity",
            market |-> "accept_market", final |-> "accept_synthesis"]

\* Python values a resume decision can take: True, False, 0 and "yes"
PyTrue == "True"
PyFalse == "False"
Decisions == {PyTrue, PyFalse, "0", "yes"}
Truthy(v) == v \in {PyTrue, "yes"}

\* texts the collaborators return, and the messages of their exceptions
Contents == {"c1"}
Messages == {"e1"}
Outcomes == [ok : {TRUE}, text : Contents] \cup [ok : {FALSE}, text : Messages]
NoOutcome == [ok |-> FALSE, text |-> "none"]

\* inputs of a run: the two input keys, or an input that leaves them out
Inputs == { <<>>, ("borrower_id" :> "Acme Co" @@ "sector" :> "Retail") }

\* a dict is a function whose domain is the set of keys present
Empty == <<>>
Get(s, k, dflt) == IF k \in DOMAIN s THEN s[k] ELSE dflt
Merge(s, u) == [k \in (DOMAIN s) \cup (DOMAIN u) |-> IF k \in DOMAIN u THEN u[k] ELSE s[k]]

VARIABLES
  config,      \* config[d]: the collection id of domain d is set in the environment
  state,       \* the graph state: the values of the state keys written so far
  tasks,       \* the nodes scheduled in the current superstep
  done,        \* the nodes of the step that have returned
  writes,      \* writes[n]: the update node n returned in this step
  sends,       \* sends[n]: the nodes that n's outgoing edges trigger
  interrupted, \* the gates suspended in interrupt(), awaiting a decision
  payload,     \* payload[g]: the value gate g last passed to interrupt()
  status,      \* "running", "aborted" or "done"
  error,       \* the exception that aborted the run
  rag_calls,   \* rag_calls[d]: calls of query_h2ogpte_rag made for domain d
  gen_calls,   \* calls of query_h2ogpte_llm
  rag_reply,   \* rag_reply[d]: outcome of the last retrieval call for d
  gen_reply,   \* outcome of the last generation call
  prompt_sent, \* the prompt of the last generation call
  unreviewed,  \* gates whose artifact was regenerated and not yet decided on
  reviews,     \* reviews[g]: for each resume of gate g, in order, whether it accepted
  checkpoint,  \* what the checkpointer holds for the run's thread id
  suspended_at \* suspended_at[g]: the state when gate g suspended

vars == <<config, state, tasks, done, writes, sends, interrupted, payload,
          status, error, rag_calls, gen_calls, rag_reply, gen_reply,
          prompt_sent, unreviewed, reviews, checkpoint, suspended_at>>

\* ----------------------------------------------------------- node bodies
AnalysisPrefix == [policy |-> "Policy Analysis:\n", entity |-> "Entity Analysis:\n",
                   market |-> "Market Analysis:\n"]
FailedPrefix == [policy |-> "Policy retrieval failed: ",
                 entity |-> "Entity retrieval failed: ",
                 market |-> "Market retrieval failed: "]

\* ingest_renewal_alert: sets the three queries in the state and returns the state
ingest_renewal_alert(s) ==
  LET borrower_id == Get(s, "borrower_id", "TechManufacture Inc")
      sector == Get(s, "sector", "Advanced Manufacturing")
  IN Merge(s,
       "policy_query" :> <<"Credit policy and underwriting guidelines for ",
                           borrower_id, " in ", sector, " sector">>
       @@ "entity_query" :> <<"Financial data, credit history, and risk profile for ",
                              borrower_id>>
       @@ "market_query" :> <<"Market conditions, sector analysis, and economic indicators for ",
                              sector, " sector">>)

\* rag_policy / rag_entity / rag_market: raise when the collection id is not
\* set, before any call; otherwise call the retrieval service and return the
\* pack with the acceptance flag reset, also when the call failed
rag_call_then_check(d, cfg, out) ==
  IF ~cfg THEN [raise |-> TRUE, called |-> TRUE, update |-> Empty]
  ELSE [raise |-> FALSE, called |-> TRUE,
        update |-> (ArtifactKey[d] :> (IF out.ok THEN <<AnalysisPrefix[d], out.text>>
                                       ELSE <<FailedPrefix[d], out.text>>)
                    @@ FlagKey[d] :> PyFalse)]

rag_missing_as_failure(d, cfg, out) ==
  IF ~cfg THEN [raise |-> FALSE, called |-> FALSE,
                update |-> (ArtifactKey[d] :> <<FailedPrefix[d], "not set">>
                            @@ FlagKey[d] :> PyFalse)]
  ELSE [raise |-> FALSE, called |-> TRUE,
        update |-> (ArtifactKey[d] :> (IF out.ok THEN <<AnalysisPrefix[d], out.text>>
                                       ELSE <<FailedPrefix[d], out.text>>)
                    @@ FlagKey[d] :> PyFalse)]

rag_failure_raises(d, cfg, out) ==
  IF ~cfg \/ ~out.ok THEN [raise |-> TRUE, called |-> cfg, update |-> Empty]
  ELSE [raise |-> FALSE, called |-> TRUE,
        update |-> (ArtifactKey[d] :> <<AnalysisPrefix[d], out.text>>
                    @@ FlagKey[d] :> PyFalse)]

rag_keeps_flag(d, cfg, out) ==
  IF ~cfg THEN [raise |-> TRUE, called |-> FALSE, update |-> Empty]
  ELSE [raise |-> FALSE, called |-> TRUE,
        update |-> (ArtifactKey[d] :> (IF out.ok THEN <<AnalysisPrefix[d], out.text>>
                                       ELSE <<FailedPrefix[d], out.text>>)
                    @@ FlagKey[d] :> PyTrue)]

rag(d, cfg, out) ==
  IF ~cfg THEN [raise |-> TRUE, called |-> FALSE, update |-> Empty]
  ELSE [raise |-> FALSE, called |-> TRUE,
        update |-> (ArtifactKey[d] :> (IF out.ok THEN <<AnalysisPrefix[d], out.text>>
                                       ELSE <<FailedPrefix[d], out.text>>)
                    @@ FlagKey[d] :> PyFalse)]

\* the prompt synthesize_recommendation composes from the three packs
synthesis_prompt(s) ==
  <<"Policy Context:">> \o s["policy_pack"] \o <<"Entity Analysis:">> \o s["entity_pack"]
    \o <<"Market Analysis:">> \o s["market_pack"]

\* synthesize_recommendation: sets credit_memo in the state it was given and
\* returns that whole state
synthesize_appends(s, out) ==
  Merge(s, "credit_memo" :> (Get(s, "credit_memo", <<>>)
                               \o (IF out.ok THEN <<out.text>>
                                   ELSE <<"Synthesis failed: ", out.text>>)))

synthesize_resets_flags(s, out) ==
  Merge(s, "credit_memo" :> (IF out.ok THEN <<out.text>>
                             ELSE <<"Synthesis failed: ", out.text>>)
           @@ [k \in {FlagKey[d] : d \in Domains} |-> PyFalse])

synthesize_returns_memo_only(s, out) ==
  "credit_memo" :> (IF out.ok THEN <<out.text>>
                    ELSE <<"Synthesis failed: ", out.text>>)

synthesize_recommendation(s, out) ==
  Merge(s, "credit_memo" :> (IF out.ok THEN <<out.text>>
                             ELSE <<"Synthesis failed: ", out.text>>))

ReviewTitle == [policy |-> "POLICY RAG REVIEW:", entity |-> "ENTITY RAG REVIEW:",
                market |-> "MARKET RAG REVIEW:",
                final |-> "FINAL APPROVAL REQUIRED - CREDIT RENEWAL MEMO:"]

\* hitl_*: the value passed to interrupt()
hitl_payload_without_artifact(g, s) ==
  LET shown == Get(s, ArtifactKey[g], <<"Not available">>)
  IN [artifact |-> <<"Not available">>,
      message |-> <<ReviewTitle[g]>> \o shown \o <<"Accept response?">>]

hitl_payload(g, s) ==
  LET shown == Get(s, ArtifactKey[g], <<"Not available">>)
  IN [artifact |-> shown,
      message |-> <<ReviewTitle[g]>> \o shown \o <<"Accept response?">>]

\* hitl_*: the update returned once interrupt() returned the decision
hitl_review_returns_state(g, s, decision) == Merge(s, FlagKey[g] :> decision)

hitl_review(g, s, decision) == FlagKey[g] :> decision

\* should_rerun_policy / _entity / _market
should_rerun_only_on_False(d, s) == Get(s, FlagKey[d], PyFalse) = PyFalse

should_rerun(d, s) == ~Truthy(Get(s, FlagKey[d], PyFalse))

\* should_synthesize (defined in graph.py, used by no edge)
should_synthesize(s) ==
  \A d \in Domains : Truthy(Get(s, FlagKey[d], PyFalse))

\* the lambda of the conditional edge after HITL_Final
route_final_always_end(s) == EndNode

route_after_final(s) ==
  IF ~Truthy(Get(s, "accept_synthesis", PyFalse)) THEN "Synthesize" ELSE EndNode

\* the lambdas of the conditional edges after the three domain gates
route_after_domain_always_synthesize(d, s) == "Synthesize"

route_after_domain(d, s) ==
  IF should_rerun(d, s) THEN RagNode[d] ELSE "Synthesize"

\* the edges of the graph: the nodes that node n triggers, the conditional
\* edges reading the state with n's own update applied
Successors_no_final_edge(n, s) ==
  IF n = "Ingest" THEN {RagNode[d] : d \in Domains}
  ELSE IF n = "Synthesize" THEN {}
  ELSE IF n = "HITL_Final" THEN {route_after_final(s)}
  ELSE IF \E d \in Domains : n = RagNode[d]
       THEN {HitlNode[d] : d \in {e \in Domains : n = RagNode[e]}}
  ELSE {route_after_domain(d, s) : d \in {e \in Domains : n = HitlNode[e]}}

Successors_gates_beside_retrieval(n, s) ==
  IF n = "Ingest" THEN {RagNode[d] : d \in Domains} \cup {HitlNode[d] : d \in Domains}
  ELSE IF n = "Synthesize" THEN {"HITL_Final"}
  ELSE IF n = "HITL_Final" THEN {route_after_final(s)}
  ELSE IF \E d \in Domains : n = RagNode[d]
       THEN {HitlNode[d] : d \in {e \in Domains : n = RagNode[e]}}
  ELSE {route_after_domain(d, s) : d \in {e \in Domains : n = HitlNode[e]}}

Successors(n, s) ==
  IF n = "Ingest" THEN {RagNode[d] : d \in Domains}
  ELSE IF n = "Synthesize" THEN {"HITL_Final"}
  ELSE IF n = "HITL_Final" THEN {route_after_final(s)}
  ELSE IF \E d \in Domains : n = RagNode[d]
       THEN {HitlNode[d] : d \in {e \in Domains : n = RagNode[e]}}
  ELSE {route_after_domain(d, s) : d \in {e \in Domains : n = HitlNode[e]}}

\* ------------------------------------------------------------------ Init
NoWrites == [n \in Nodes |-> Empty]
NoSends == [n \in Nodes |-> {}]

\* what the checkpointer keeps of a run: the state as of the last completed
\* step, the nodes of the current step, and for those that have returned
\* their pending updates and triggers, and the pending interrupts
Checkpoint_drops_pending(s, t, dn, w, sd, intr) ==
  [state |-> s, tasks |-> t, done |-> {}, writes |-> NoWrites, sends |-> NoSends,
   interrupted |-> intr]

Checkpoint(s, t, dn, w, sd, intr) ==
  [state |-> s, tasks |-> t, done |-> dn, writes |-> w, sends |-> sd,
   interrupted |-> intr]

Init ==
  /\ config \in [Domains -> BOOLEAN]
  /\ state \in Inputs
  /\ tasks = {"Ingest"}
  /\ done = {}
  /\ writes = NoWrites
  /\ sends = NoSends
  /\ interrupted = {}
  /\ payload = [g \in Gates |-> [artifact |-> <<>>, message |-> <<>>]]
  /\ status = "running"
  /\ error = "none"
  /\ rag_calls = [d \in Domains |-> 0]
  /\ gen_calls = 0
  /\ rag_reply = [d \in Domains |-> NoOutcome]
  /\ gen_reply = NoOutcome
  /\ prompt_sent = <<>>
  /\ unreviewed = {}
  /\ reviews = [g \in Gates |-> <<>>]
  /\ checkpoint = Checkpoint(state, {"Ingest"}, {}, NoWrites, NoSends, {})
  /\ suspended_at = [g \in Gates |-> Empty]

\* --------------------------------------------------------------- actions
Ready(n) == status = "running" /\ n \in tasks \ done

\* node n returns update u: the update and the edges' triggers are buffered
\* and saved as pending in the checkpoint
Return(n, u) ==
  /\ done' = done \cup {n}
  /\ writes' = [writes EXCEPT ![n] = u]
  /\ sends' = [sends EXCEPT ![n] = Successors(n, Merge(state, u))]
  /\ checkpoint' = Checkpoint(state, tasks, done', writes', sends', interrupted)

Ingest ==
  /\ Ready("Ingest")
  /\ Return("Ingest", ingest_renewal_alert(state))
  /\ UNCHANGED <<config, state, tasks, interrupted, payload, status, error,
                 rag_calls, gen_calls, rag_reply, gen_reply, prompt_sent, unreviewed,
                 reviews, suspended_at>>

\* one RAG node runs: it raises ValueError, which aborts the run, or calls
\* the retrieval service and returns
RunRag(d) ==
  /\ Ready(RagNode[d])
  /\ \E out \in Outcomes :
       LET r == rag(d, config[d], out) IN
         /\ rag_calls' = [rag_calls EXCEPT ![d] = IF r.called THEN @ + 1 ELSE @]
         /\ rag_reply' = [rag_reply EXCEPT ![d] = IF r.called THEN out ELSE @]
         /\ IF r.raise
              THEN /\ status' = "aborted"
                   /\ error' = "ValueError"
                   /\ UNCHANGED <<done, writes, sends, checkpoint>>
              ELSE /\ Return(RagNode[d], r.update)
                   /\ UNCHANGED <<status, error>>
  /\ UNCHANGED <<config, state, tasks, interrupted, payload, gen_calls, gen_reply,
                 prompt_sent, unreviewed, reviews, suspended_at>>

\* a review node runs up to interrupt() and suspends with its payload; the
\* interrupt is saved in the checkpoint
GateInterrupt(g) ==
  /\ Ready(HitlNode[g])
  /\ g \notin interrupted
  /\ interrupted' = interrupted \cup {g}
  /\ payload' = [payload EXCEPT ![g] = hitl_payload(g, state)]
  /\ checkpoint' = Checkpoint(state, tasks, done, writes, sends, interrupted')
  /\ suspended_at' = [suspended_at EXCEPT ![g] = state]
  /\ UNCHANGED <<config, state, tasks, done, writes, sends, status, error,
                 rag_calls, gen_calls, rag_reply, gen_reply, prompt_sent, unreviewed,
                 reviews>>

\* the caller resumes a suspended gate with the run's thread id and a
\* decision: the run is loaded from the checkpoint, the node runs again,
\* interrupt() returns the decision and the node returns
GateResume(g, decision) ==
  /\ status = "running"
  /\ HitlNode[g] \in checkpoint.tasks \ checkpoint.done
  /\ g \in checkpoint.interrupted
  /\ \/ Truthy(decision)
     \/ g \in Domains /\ rag_calls[g] < MaxRagRuns
     \/ g = "final" /\ gen_calls < MaxSynthRuns
  /\ LET u == hitl_review(g, checkpoint.state, decision) IN
       /\ state' = checkpoint.state
       /\ tasks' = checkpoint.tasks
       /\ interrupted' = checkpoint.interrupted \ {g}
       /\ done' = checkpoint.done \cup {HitlNode[g]}
       /\ writes' = [checkpoint.writes EXCEPT ![HitlNode[g]] = u]
       /\ sends' = [checkpoint.sends EXCEPT
                      ![HitlNode[g]] = Successors(HitlNode[g], Merge(checkpoint.state, u))]
       /\ checkpoint' = Checkpoint(state', tasks', done', writes', sends', interrupted')
  /\ suspended_at' = [suspended_at EXCEPT ![g] = Empty]
  /\ reviews' = [reviews EXCEPT ![g] = Append(@, Truthy(decision))]
  /\ UNCHANGED <<config, payload, status, error,
                 rag_calls, gen_calls, rag_reply, gen_reply, prompt_sent, unreviewed>>

\* the Synthesize node runs: it calls the generation service and returns
Synthesize ==
  /\ Ready("Synthesize")
  /\ \E out \in Outcomes :
       /\ gen_calls' = gen_calls + 1
       /\ gen_reply' = out
       /\ prompt_sent' = synthesis_prompt(state)
       /\ Return("Synthesize", synthesize_recommendation(state, out))
  /\ UNCHANGED <<config, state, tasks, interrupted, payload, status, error,
                 rag_calls, rag_reply, unreviewed, reviews, suspended_at>>

\* the keys that two nodes of the step both wrote
Conflicts ==
  {k \in UNION {DOMAIN writes[n] : n \in tasks} :
     \E n1, n2 \in tasks : n1 # n2 /\ k \in DOMAIN writes[n1] /\ k \in DOMAIN writes[n2]}

Written(k) == \E n \in tasks : k \in DOMAIN writes[n]
ValueWritten(k) == writes[CHOOSE n \in tasks : k \in DOMAIN writes[n]][k]

\* the step ends when every node scheduled in it has returned
StepComplete_any_returned == done # {}

StepComplete == done = tasks

\* every node of the step has returned: the updates are merged into the
\* state and the triggered nodes form the next step; a key written twice
\* raises InvalidUpdateError; a step that triggers nothing ends the run
EndStep ==
  /\ status = "running"
  /\ tasks # {}
  /\ StepComplete
  /\ IF Conflicts # {}
       THEN /\ status' = "aborted"
            /\ error' = "InvalidUpdateError"
            /\ UNCHANGED <<state, tasks, done, writes, sends, unreviewed, checkpoint>>
       ELSE LET next == (UNION {sends[n] : n \in tasks}) \ {EndNode} IN
            /\ state' = [k \in (DOMAIN state) \cup UNION {DOMAIN writes[n] : n \in tasks}
                           |-> IF Written(k) THEN ValueWritten(k) ELSE state[k]]
            /\ tasks' = next
            /\ done' = {}
            /\ writes' = NoWrites
            /\ sends' = NoSends
            /\ checkpoint' = Checkpoint(state', next, {}, NoWrites, NoSends, interrupted)
            /\ status' = IF next = {} THEN "done" ELSE "running"
            /\ unreviewed' =
                 (unreviewed \ {g \in Gates : HitlNode[g] \in tasks})
                   \cup {d \in Domains : RagNode[d] \in tasks}
                   \cup (IF "Synthesize" \in tasks THEN {"final"} ELSE {})
            /\ UNCHANGED error
  /\ UNCHANGED <<config, interrupted, payload, rag_calls, gen_calls, rag_reply,
                 gen_reply, prompt_sent, reviews, suspended_at>>

Next ==
  \/ Ingest
  \/ \E d \in Domains : RunRag(d)
  \/ \E g \in Gates : GateInterrupt(g)
  \/ \E g \in Gates, decision \in Decisions : GateResume(g, decision)
  \/ Synthesize
  \/ EndStep

Spec == Init /\ [][Next]_vars

\* the engine runs every scheduled node and ends every step, and a
\* suspended gate is eventually resumed with a decision
FairSpec == Spec /\ WF_vars(Next)

\* ---------------------------------------------------------------- claims
Flag(g) == Get(state, FlagKey[g], PyFalse)
Accepted(g) == Truthy(Flag(g))
AllDomainsAccepted == \A d \in Domains : Accepted(d)
AllConfigured == \A d \in Domains : config[d]
\* the step's updates are being merged and no key was written twice
Applied == tasks # {} /\ done = tasks /\ status = "running" /\ (tasks' # tasks \/ status' = "done")
Decided(g) == Get(writes[HitlNode[g]], FlagKey[g], PyFalse)
Packs(s) == [d \in Domains |-> Get(s, ArtifactKey[d], <<>>)]
DomainFields(s, d) == <<Get(s, ArtifactKey[d], <<>>), Get(s, FlagKey[d], "absent")>>

\* C1: whenever the Synthesize node is scheduled and about to execute, the
\* three acceptance flags accept_policy, accept_entity and accept_market of
\* the state it reads are all true.
C1_SynthesisEntryAllAccepted ==
  Ready("Synthesize") => AllDomainsAccepted

\* C2: a Synthesize run that is entered while one of the three domain flags
\* is false declines: it makes no generation call, returns no credit_memo,
\* and the run stays running.
C2_SynthesisDeclinesWhenNotReady ==
  [][ (Ready("Synthesize") /\ ~AllDomainsAccepted /\ "Synthesize" \in done')
        => /\ gen_calls' = gen_calls
           /\ "credit_memo" \notin DOMAIN writes'["Synthesize"]
           /\ status' = "running" ]_vars

\* C3: the run is completed only with accept_synthesis true, completion is
\* the outcome of a step of HITL_Final alone whose decision was an accept,
\* and a Final-gate rejection never completes the run.
C3_TerminatesOnlyAccepted ==
  /\ [](status = "done" => Accepted("final"))
  /\ [][ (status # "done" /\ status' = "done")
           => tasks = {"HITL_Final"} /\ Truthy(Decided("final")) ]_vars
  /\ [][ ("HITL_Final" \in done /\ ~Truthy(Decided("final")))
           => status' # "done" ]_vars

C3_Witness ==
  status = "done" /\ gen_calls = 2

\* C4: for each domain D, a reject recorded at D's gate leaves accept_D
\* false and schedules D's retrieval node again; the updates returned by
\* D's gate and D's retrieval node hold D's own fields only; and across
\* every step the pack and flag of a domain change only when that domain's
\* own retrieval node or gate ran in the step.
C4_RejectRetriesOwnDomainOnly ==
  /\ [](\A d \in Domains :
          /\ DOMAIN writes[HitlNode[d]] \subseteq {FlagKey[d]}
          /\ DOMAIN writes[RagNode[d]] \subseteq {ArtifactKey[d], FlagKey[d]})
  /\ [][ \A d \in Domains :
           (Applied /\ HitlNode[d] \in tasks /\ ~Truthy(Decided(d)))
             => /\ RagNode[d] \in tasks'
                /\ ~Truthy(Get(state', FlagKey[d], PyTrue)) ]_vars
  /\ [][ \A e \in Domains :
           DomainFields(state', e) # DomainFields(state, e)
             => (RagNode[e] \in tasks \/ HitlNode[e] \in tasks) ]_vars

C4_Witness ==
  /\ RagNode["policy"] \in done
  /\ rag_calls["policy"] = 2
  /\ rag_calls["entity"] = 1
  /\ Accepted("entity")

\* C5: a reject recorded at the Final gate schedules Synthesize again; every
\* Synthesize run sends a prompt composed of the three packs of the current
\* state only, and the credit_memo it leaves in the state is the generation
\* result (or the failure text) alone; the three packs keep their values
\* from the first Synthesize run on.
MemoOf(out) == IF out.ok THEN <<out.text>> ELSE <<"Synthesis failed: ", out.text>>
PromptOfPacks(s) ==
  <<"Policy Context:">> \o s["policy_pack"] \o <<"Entity Analysis:">> \o s["entity_pack"]
    \o <<"Market Analysis:">> \o s["market_pack"]

C5_FinalRejectOverwritesMemoOnly ==
  /\ [](("Synthesize" \in done)
          => /\ prompt_sent = PromptOfPacks(state)
             /\ writes["Synthesize"]["credit_memo"] = MemoOf(gen_reply)
             /\ Packs(writes["Synthesize"]) = Packs(state))
  /\ [](("HITL_Final" \in tasks)
          => /\ state["credit_memo"] = MemoOf(gen_reply)
             /\ prompt_sent = PromptOfPacks(state))
  /\ [][ (Applied /\ "HITL_Final" \in tasks /\ ~Truthy(Decided("final")))
           => tasks' = {"Synthesize"} ]_vars
  /\ [][ (gen_calls > 0) => Packs(state') = Packs(state) ]_vars

C5_Witness ==
  "HITL_Final" \in tasks /\ gen_calls = 2 /\ "final" \in interrupted

\* C6 (as claimed): in a run with POLICY_COLLECTION_ID unset the retrieval
\* service is never called, for any of the three domains.
C6_NoRetrievalCallWhenPolicyUnset ==
  (~config["policy"]) => \A d \in Domains : rag_calls[d] = 0

\* C6 (amended): in a run with POLICY_COLLECTION_ID unset the retrieval
\* service is never called for the policy domain, no pack or flag is ever
\* written, no review gate is reached, the run never completes, and a run
\* whose RAG_Policy node has executed is aborted.
C6_PolicyUnsetAbortsBeforePolicyCall ==
  (~config["policy"]) =>
     /\ rag_calls["policy"] = 0
     /\ \A g \in Gates : ArtifactKey[g] \notin DOMAIN state /\ FlagKey[g] \notin DOMAIN state
     /\ \A g \in Gates : HitlNode[g] \notin tasks
     /\ status # "done"
     /\ status = "running" => ("Ingest" \in tasks \/ Ready(RagNode["policy"]))
     /\ status = "aborted" => error = "ValueError"

C6_Witness ==
  /\ ~config["policy"] /\ config["entity"] /\ config["market"]
  /\ status = "aborted"
  /\ rag_calls["entity"] = 1 /\ rag_calls["market"] = 1

\* C7: for each domain whose collection id is not set, the retrieval node
\* never calls the service and never returns an update, the domain's pack
\* and flag are never written, its gate is never scheduled, and the run is
\* aborted as soon as that node has executed; an aborted run takes no
\* further step.
C7_MissingConfigIsFatal ==
  /\ [](\A d \in Domains :
          (~config[d]) =>
             /\ rag_calls[d] = 0
             /\ RagNode[d] \notin done /\ writes[RagNode[d]] = Empty
             /\ ArtifactKey[d] \notin DOMAIN state /\ FlagKey[d] \notin DOMAIN state
             /\ HitlNode[d] \notin tasks
             /\ status # "done"
             /\ status = "running" => ("Ingest" \in tasks \/ Ready(RagNode[d])))
  /\ [][ status = "aborted" => UNCHANGED vars ]_vars

C7_Witness ==
  /\ config["policy"] /\ ~config["entity"] /\ config["market"]
  /\ status = "aborted" /\ error = "ValueError"
  /\ RagNode["policy"] \in done

C9_AbortOnlyOnMissingConfig ==
  status = "aborted" => ~AllConfigured

\* C10: for each of the four artifacts, while the version in the state was
\* written by the latest run of its producing node and its gate has not yet
\* recorded a decision on it, the matching acceptance flag is false.
C10_UnreviewedArtifactNotAccepted ==
  \A g \in unreviewed : ~Accepted(g)

C10_Witness ==
  /\ "final" \in unreviewed /\ gen_calls = 2
  /\ "accept_synthesis" \in DOMAIN state

\* C11: each artifact field appears only in the update of its producing
\* node (the packs in their RAG node's, credit_memo in Synthesize's) and
\* each acceptance flag only in the update of its gate, the reset to False
\* by the domain's own RAG node apart; no other node's update holds it.
Producer == [policy |-> "RAG_Policy", entity |-> "RAG_Entity",
             market |-> "RAG_Market", final |-> "Synthesize"]

C11_SingleWriterPerField ==
  \A n \in Nodes, g \in Gates :
     /\ ArtifactKey[g] \in DOMAIN writes[n] => n = Producer[g]
     /\ FlagKey[g] \in DOMAIN writes[n] => n \in {HitlNode[g], Producer[g]} \ {"Synthesize"}

\* C12: in a run where the Policy gate rejects at its first review (and does
\* not reject a second time) and the Entity and Market gates accept at their
\* first review, the run goes on to the second Policy review instead of
\* aborting, the retrieval service is called once each for Entity and Market
\* and at most twice for Policy, exactly twice once Policy was accepted.
FirstReview(g) == reviews[g][1]
PolicyRejectsOnceOthersAccept ==
  /\ \A g \in Domains : Len(reviews[g]) >= 1
  /\ ~FirstReview("policy")
  /\ FirstReview("entity") /\ FirstReview("market")
  /\ Len(reviews["policy"]) <= 2
  /\ Len(reviews["policy"]) = 2 => reviews["policy"][2]

C12_PolicyRetryCallCounts ==
  PolicyRejectsOnceOthersAccept =>
     /\ status # "aborted"
     /\ rag_calls["entity"] = 1 /\ rag_calls["market"] = 1
     /\ rag_calls["policy"] <= 2
     /\ Len(reviews["policy"]) = 2 => rag_calls["policy"] = 2

\* C13: a run in which every collection id is set, every retrieval and the
\* generation succeed and every recorded decision is an accept eventually
\* completes, with credit_memo the generation result and exactly one
\* decision, an accept, recorded at each of the four gates.
HappyPath ==
  /\ AllConfigured
  /\ \A d \in Domains : rag_reply[d] = NoOutcome \/ rag_reply[d].ok
  /\ gen_reply = NoOutcome \/ gen_reply.ok
  /\ \A g \in Gates : \A i \in 1..Len(reviews[g]) : reviews[g][i]

CompletedByFourAccepts ==
  /\ status = "done"
  /\ state["credit_memo"] = <<gen_reply.text>>
  /\ \A g \in Gates : reviews[g] = <<TRUE>>

C13_HappyPathCompletes ==
  ([]HappyPath) => <>CompletedByFourAccepts

C13_Witness ==
  HappyPath /\ CompletedByFourAccepts /\ gen_calls = 1

LastPack(d) == rag(d, config[d], rag_reply[d]).update[ArtifactKey[d]]

\* C16: within a domain's branch retrieval, gate and route are sequential:
\* the gate is scheduled only by a retrieval run of its domain that returned
\* in the step just ended, and it runs in a step without that retrieval
\* node, on a state whose pack is the one that run wrote, which is the pack
\* the gate presents; the gate's route exists only once the gate returned
\* with a recorded decision; and the retrieval service is never called for a
\* domain whose gate is scheduled or suspended.
C16_BranchStagesSequential ==
  /\ [](\A d \in Domains :
          HitlNode[d] \in tasks
            => /\ RagNode[d] \notin tasks
               /\ rag_calls[d] >= 1
               /\ state[ArtifactKey[d]] = LastPack(d)
               /\ d \in interrupted => payload[d].artifact = LastPack(d))
  /\ [](\A d \in Domains :
          sends[HitlNode[d]] # {}
            => /\ HitlNode[d] \in done /\ d \notin interrupted
               /\ FlagKey[d] \in DOMAIN writes[HitlNode[d]]
               /\ Len(reviews[d]) >= 1)
  /\ [][ \A d \in Domains :
           /\ (HitlNode[d] \in tasks' /\ HitlNode[d] \notin tasks)
                => (RagNode[d] \in done /\ ArtifactKey[d] \in DOMAIN writes[RagNode[d]])
           /\ (RagNode[d] \in tasks' /\ RagNode[d] \notin tasks /\ "Ingest" \notin tasks)
                => (HitlNode[d] \in done /\ ~Truthy(Decided(d)))
           /\ rag_calls'[d] # rag_calls[d]
                => (d \notin interrupted /\ HitlNode[d] \notin tasks) ]_vars

C16_Witness ==
  /\ "policy" \in interrupted
  /\ rag_calls["policy"] = 2
  /\ Len(reviews["policy"]) = 1

\* the state with a domain's flag set to v, or removed when v is "absent"
WithFlag(s, d, v) ==
  IF v = "absent" THEN [k \in (DOMAIN s) \ {FlagKey[d]} |-> s[k]]
  ELSE Merge(s, FlagKey[d] :> v)

\* C17: a domain's routing function answers "retry this domain" exactly when
\* the domain's flag is False, absent or another falsy value, and "proceed
\* to Synthesize" otherwise, whatever the other fields of the state hold;
\* the route a gate buffers is the one of the decision it returned.
C17_RouteDependsOnOwnFlagOnly ==
  /\ \A d \in Domains, v \in Decisions \cup {"absent"} :
        /\ should_rerun(d, WithFlag(state, d, v)) = (v \notin {PyTrue, "yes"})
        /\ route_after_domain(d, WithFlag(state, d, v))
             = IF v \in {PyTrue, "yes"} THEN "Synthesize" ELSE RagNode[d]
  /\ \A d \in Domains :
        HitlNode[d] \in done
          => sends[HitlNode[d]]
               = IF writes[HitlNode[d]][FlagKey[d]] \in {PyTrue, "yes"}
                   THEN {"Synthesize"} ELSE {RagNode[d]}

C17_Witness ==
  /\ HitlNode["policy"] \in done
  /\ writes[HitlNode["policy"]] = ("accept_policy" :> "0")
  /\ sends[HitlNode["policy"]] = {"RAG_Policy"}
  /\ HitlNode["entity"] \in done /\ Truthy(Decided("entity"))

\* C18: when the run has completed (no node is scheduled, none is suspended
\* and no exception ended the run), accept_policy, accept_entity,
\* accept_market and accept_synthesis are all present in the state and true.
C18_CompletedRunAllAccepted ==
  (status = "done" \/ (status = "running" /\ tasks = {}))
     => /\ tasks = {} /\ interrupted = {}
        /\ \A g \in Gates : FlagKey[g] \in DOMAIN state /\ Truthy(state[FlagKey[g]])

C18_Witness ==
  /\ status = "done"
  /\ rag_calls["policy"] = 2
  /\ gen_calls = 2
  /\ state["accept_market"] = "yes"

\* the last decision the reviewer gave at gate g was an accept
LastReviewAccepts(g) == Len(reviews[g]) >= 1 /\ reviews[g][Len(reviews[g])]

\* C19: an accept recorded at a domain's gate is in the state once the
\* gate's step has ended, and from then on no step of the run, Synthesize
\* with its whole-state update included, changes that domain's flag or its
\* pack: the flag stays true and the pack is the one that was accepted.
C19_AcceptedDomainStaysAccepted ==
  /\ [](\A d \in Domains :
          (LastReviewAccepts(d) /\ HitlNode[d] \notin tasks)
             => (Accepted(d) /\ state[ArtifactKey[d]] = payload[d].artifact))
  /\ [][ \A d \in Domains :
           Accepted(d)
             => /\ state'[FlagKey[d]] = state[FlagKey[d]]
                /\ state'[ArtifactKey[d]] = state[ArtifactKey[d]] ]_vars

C19_Witness ==
  /\ status = "done"
  /\ gen_calls = 2
  /\ \A d \in Domains : LastReviewAccepts(d) /\ rag_calls[d] = 2

\* C19 (second case): the accepted flags are still in the state when the
\* step of Synthesize beside another domain's retry has failed
C19_WitnessAborted ==
  /\ error = "InvalidUpdateError"
  /\ LastReviewAccepts("entity") /\ Accepted("entity")

\* C20: the updates of the nodes that run in the same step are disjoint:
\* no field is written by two nodes of a step, and the run never ends in
\* the engine's conflicting-write error.
C20_ConcurrentWritesDisjoint ==
  /\ \A n1, n2 \in tasks :
        n1 # n2 => (DOMAIN writes[n1]) \cap (DOMAIN writes[n2]) = {}
  /\ error # "InvalidUpdateError"

\* a step that holds a retrieval node is merged into the state
PackWriteMerged ==
  /\ \E d \in Domains : RagNode[d] \in tasks
  /\ status = "running" /\ (tasks' # tasks \/ state' # state)

\* C21: when the run has completed, credit_memo is the result of the last
\* call of the generation service, and the prompt of that call was composed
\* from the three packs of the final state; every retrieval step whose packs
\* were merged into the state ended before the first Synthesize run
\* started, so no memo was computed from a pack that was regenerated later.
C21_FinalMemoFromFinalPacks ==
  /\ [](status = "done"
          => /\ gen_calls >= 1
             /\ state["credit_memo"] = MemoOf(gen_reply)
             /\ prompt_sent = PromptOfPacks(state)
             /\ \A d \in Domains : state[ArtifactKey[d]] = LastPack(d))
  /\ [][ PackWriteMerged => (gen_calls = 0 /\ "Synthesize" \notin tasks) ]_vars

C21_Witness ==
  /\ status = "done"
  /\ gen_calls = 2
  /\ rag_calls["market"] = 2
  /\ ~rag_reply["market"].ok /\ rag_reply["policy"].ok

\* C22: the memo a Final accept approves is the memo in the state: while
\* HITL_Final is suspended or has returned, it is the only node of its
\* step, its payload shows the credit_memo of the state, and no step
\* changes credit_memo or calls the generation service before the step
\* has ended; when the run has completed, the last Final review was an
\* accept and credit_memo equals the artifact of its payload.
C22_ApprovedMemoIsStoredMemo ==
  /\ [](("final" \in interrupted \/ "HITL_Final" \in done)
          => /\ tasks = {"HITL_Final"}
             /\ payload["final"].artifact = state["credit_memo"]
             /\ payload["final"].artifact = MemoOf(gen_reply))
  /\ [][ ("final" \in interrupted \/ ("HITL_Final" \in done /\ Truthy(Decided("final"))))
           => /\ "credit_memo" \in DOMAIN state'
              /\ state'["credit_memo"] = state["credit_memo"]
              /\ gen_calls' = gen_calls /\ gen_reply' = gen_reply ]_vars
  /\ [](status = "done"
          => /\ LastReviewAccepts("final")
             /\ state["credit_memo"] = payload["final"].artifact)

C22_Witness ==
  /\ status = "done"
  /\ reviews["final"] = <<FALSE, TRUE>>
  /\ gen_calls = 2
  /\ ~gen_reply.ok

====
